---- MODULE Spec2Model ----
(***************************************************************************)
(* The per-frame simulation step of src/src/main.js (update, lines 526-678)*)
(* with its state object, key handlers, reset and chase camera.            *)
(*                                                                         *)
(* Numbers are fixed point, so that every quantity stays an integer:       *)
(*   positions      hundredths of a mm     velocities     mm/s             *)
(*   accelerations  mm/s^2                 angles         microradians     *)
(*   throttle       thousandths            gForce         thousandths      *)
(*   dt             sixtieths of a second (0.05 s = 3)                     *)
(*   unit vectors, damping factors and lerp weights: ten-thousandths       *)
(* Every product is truncated toward zero.  dt is a whole number of        *)
(* sixtieths, which makes the exponent dt*60 of the Math.pow calls a       *)
(* natural number.                                                         *)
(***************************************************************************)
EXTENDS Integers, Sequences, FiniteSets, TLC

VARIABLES
    state,          \* the state object (main.js 385-396)
    keys,           \* the key codes currently held (main.js 417-424)
    cameraCurrent,  \* main.js 430
    cameraTarget,   \* main.js 429
    prevAltitude,   \* main.js 524
    hud,            \* what the last update() wrote to the HUD (main.js 657-672)
    frame,          \* what the last update() saw: dt, the keys held, isStalled,
                    \* liftAcc, whether the speed cap acted, and the onGround
                    \* the frame started with
    ticks,          \* number of update() calls so far
    liftoffs        \* history: how often onGround went from true to false

vars == <<state, keys, cameraCurrent, cameraTarget, prevAltitude, hud, frame,
          ticks, liftoffs>>

(***************************************************************************)
(* Bounds of the model.                                                    *)
(***************************************************************************)
MaxTicks == 2          \* frames of a free run (Spec)
MaxFlightTicks == 1    \* frames after an in-flight snapshot (SpecFlight)
MaxLiftoffTicks == 600 \* frames of the liftoff run (SpecLiftoff): 10 s at 60 Hz
MaxDecayTicks == 60    \* frames of the auto-level run (SpecDecay): 1 s at 60 Hz

\* Values clock.getDelta() hands to update(), in sixtieths of a second: 0 (the
\* clock's first call, or two frames on one timestamp), one 60 Hz frame, and a
\* frame hitch beyond the cap of 0.05 s.  The clock is monotonic: no delta is
\* negative.
ClockDeltas == {0, 1, 4}

KeyCodes == {"KeyW", "KeyS", "KeyA", "KeyD", "KeyQ", "KeyE",
             "ArrowUp", "ArrowDown", "Space"}

\* The sets of keys held together that the free runs explore.
KeyCombos == {{}} \cup {{k} : k \in KeyCodes}
             \cup {{"KeyW", "KeyS"}, {"KeyA", "KeyD"}, {"KeyS", "KeyD"},
                   {"ArrowUp", "ArrowDown"}, {"Space", "KeyS"},
                   {"Space", "ArrowUp"}}

(***************************************************************************)
(* Program constants (main.js 398-413, 527, 538, 548, 589, 606).           *)
(***************************************************************************)
GRAVITY == 9810
MAX_SPEED == 110000
STALL_SPEED == 20000
LIFT_FACTOR == 38              \* 0.0038, in ten-thousandths
DRAG_FACTOR == 18              \* 0.0018, in ten-thousandths
THRUST_ACCEL == 22000
PITCH_RATE == 1200000
ROLL_RATE == 1600000
YAW_RATE == 500000
MAX_PITCH == 1256637           \* Math.PI / 2.5
MAX_ROLL == 2513274            \* Math.PI * 0.8
ROLL_DAMPING == 9700
PITCH_DAMPING == 9700
GROUND_FRICTION == 9980
GROUND_ANGLE_DAMPING == 9000
CAMERA_LERP == 100             \* 0.01, in ten-thousandths
DT_CAP == 3                    \* 0.05 s
THROTTLE_RATE == 600           \* 0.6 per second
YAW_COUPLING == 35             \* 0.35, in hundredths
DRAG_MIN_SPEED == 10           \* 0.01 m/s
groundY == 110000              \* gear height, 1.1 m
LEVEL_LIFT_SPEED == 50809      \* sqrt(GRAVITY / LIFT_FACTOR): lift = gravity

(***************************************************************************)
(* Fixed-point arithmetic.                                                 *)
(***************************************************************************)
Abs(a) == IF a < 0 THEN -a ELSE a
Sgn(a) == IF a < 0 THEN -1 ELSE 1
Min(a, b) == IF a < b THEN a ELSE b
Max(a, b) == IF a > b THEN a ELSE b

\* a / b truncated toward zero (b > 0).
TDiv(a, b) == Sgn(a) * (Abs(a) \div b)

\* a * f / s truncated toward zero, for 0 <= f and s * f < 2^31, whatever a.
Scale(a, f, s) == Sgn(a) * (((Abs(a) \div s) * f) + (((Abs(a) % s) * f) \div s))

\* <<q, r>> with a * b = q * d + r and 0 <= r < d, for naturals a, b and d > 0,
\* by doubling: no intermediate leaves 32 bits.
RECURSIVE MulDivQR(_, _, _)
MulDivQR(a, b, d) ==
    IF b = 0 THEN <<0, 0>>
    ELSE LET h == MulDivQR(a, b \div 2, d)
             add == IF b % 2 = 1 THEN a ELSE 0
             r == (2 * h[2]) + (add % d)
         IN  <<(2 * h[1]) + (add \div d) + (r \div d), r % d>>

\* a * b / d truncated toward zero (d > 0).
MulDiv(a, b, d) == Sgn(a) * Sgn(b) * MulDivQR(Abs(a), Abs(b), d)[1]

\* Math.pow(base, dt * 60): base in ten-thousandths, n = dt * 60 a natural.
RECURSIVE Pow(_, _)
Pow(base, n) == IF n = 0 THEN 10000 ELSE (base * Pow(base, n - 1)) \div 10000

\* Math.pow(CAMERA_LERP, dt): 0.01^(n/60), in ten-thousandths.
PowDt(base, n) ==
    IF n = 0 THEN 10000
    ELSE IF base = CAMERA_LERP
         THEN Pow(9261, n)      \* 0.01^(1/60) = 0.92612
         ELSE Pow(base, n)

(***************************************************************************)
(* THREE.Vector3.                                                          *)
(***************************************************************************)
Vec(x, y, z) == [x |-> x, y |-> y, z |-> z]
VAdd(v, w) == Vec(v.x + w.x, v.y + w.y, v.z + w.z)

\* v.addScaledVector(w, f / s) with f / s a weight of at most 2^31 / s.
AddScaled(v, w, f, s) ==
    Vec(v.x + Scale(w.x, f, s), v.y + Scale(w.y, f, s), v.z + Scale(w.z, f, s))

\* x * x as two base-10^6 digits <<hi, lo>>, for 0 <= x < 2^21.
Sq(x) ==
    LET h == x \div 1000
        l == x % 1000
        mid == 2 * h * l
        lo == (l * l) + ((mid % 1000) * 1000)
    IN  <<(h * h) + (mid \div 1000) + (lo \div 1000000), lo % 1000000>>

PairAdd(p, q) ==
    LET lo == p[2] + q[2]
    IN  <<p[1] + q[1] + (lo \div 1000000), lo % 1000000>>

PairLeq(p, q) == p[1] < q[1] \/ (p[1] = q[1] /\ p[2] <= q[2])

LengthSq(v) == PairAdd(PairAdd(Sq(Abs(v.x)), Sq(Abs(v.y))), Sq(Abs(v.z)))

\* The largest r in lo .. hi-1 with r * r <= sq, given lo * lo <= sq < hi * hi.
RECURSIVE Isqrt(_, _, _)
Isqrt(sq, lo, hi) ==
    IF hi - lo <= 1 THEN lo
    ELSE LET mid == (lo + hi) \div 2
         IN  IF PairLeq(Sq(mid), sq) THEN Isqrt(sq, mid, hi)
             ELSE Isqrt(sq, lo, mid)

\* v.length(), rounded down.
Length(v) ==
    Isqrt(LengthSq(v), Max(Abs(v.x), Max(Abs(v.y), Abs(v.z))),
          Abs(v.x) + Abs(v.y) + Abs(v.z) + 1)

\* v.length() > len
LongerThan(v, len) == ~PairLeq(LengthSq(v), Sq(len))

\* v.setLength(len): normalize, then multiply by len.  The division is by the
\* length rounded up, so that truncation never leaves the result longer than len.
SetLength(v, len) ==
    LET l == Length(v)
        up == IF Sq(l) = LengthSq(v) THEN l ELSE l + 1
    IN  IF up = 0 THEN v
        ELSE Vec(MulDiv(v.x, len, up), MulDiv(v.y, len, up), MulDiv(v.z, len, up))

\* a.lerp(b, w), w in ten-thousandths.
Lerp(a, b, w) ==
    Vec(a.x + Scale(b.x - a.x, w, 10000), a.y + Scale(b.y - a.y, w, 10000),
        a.z + Scale(b.z - a.z, w, 10000))

(***************************************************************************)
(* Sine and cosine in ten-thousandths of an angle in microradians: the     *)
(* angle is brought into [-pi, pi], folded into [-pi/2, pi/2], and the     *)
(* Taylor polynomial is evaluated by Horner's rule.                        *)
(***************************************************************************)
PiMicro == 3141593

\* x * x for |x| <= pi/2, in ten-thousandths
AngleSq(x) == LET x4 == TDiv(x, 100) IN (x4 * x4) \div 10000

CosPoly(x) ==
    LET x2 == AngleSq(x)
        t5 == 10000 - (x2 \div 90)
        t4 == 10000 - (((x2 * t5) \div 10000) \div 56)
        t3 == 10000 - (((x2 * t4) \div 10000) \div 30)
        t2 == 10000 - (((x2 * t3) \div 10000) \div 12)
    IN  10000 - (((x2 * t2) \div 10000) \div 2)

SinPoly(x) ==
    LET x2 == AngleSq(x)
        t5 == 10000 - (x2 \div 110)
        t4 == 10000 - (((x2 * t5) \div 10000) \div 72)
        t3 == 10000 - (((x2 * t4) \div 10000) \div 42)
        t2 == 10000 - (((x2 * t3) \div 10000) \div 20)
        t1 == 10000 - (((x2 * t2) \div 10000) \div 6)
    IN  TDiv(TDiv(x, 100) * t1, 10000)

WrapAngle(theta) == ((theta + PiMicro) % (2 * PiMicro)) - PiMicro

Sin(theta) ==
    LET t == WrapAngle(theta)
        h == PiMicro \div 2
    IN  IF t > h THEN SinPoly(PiMicro - t)
        ELSE IF t < -h THEN SinPoly(-PiMicro - t)
        ELSE SinPoly(t)

Cos(theta) ==
    LET t == WrapAngle(theta)
        h == PiMicro \div 2
    IN  IF t > h THEN -CosPoly(PiMicro - t)
        ELSE IF t < -h THEN -CosPoly(-PiMicro - t)
        ELSE CosPoly(t)

\* product of two ten-thousandths
Mul4(a, b) == TDiv(a * b, 10000)

(***************************************************************************)
(* The state object, reset and the steps of update(), in source order.     *)
(***************************************************************************)
\* main.js 385-396
InitialState ==
    [position |-> Vec(0, 200000, 0), velocity |-> Vec(0, 0, 0),
     pitch |-> 0, roll |-> 0, yaw |-> 0, throttle |-> 300,
     speed |-> 0, gForce |-> 1000, onGround |-> TRUE]

\* main.js 428
cameraOffset == Vec(-1800000, 300000, 0)

\* main.js 510-519
resetAirplane(s) ==
    [s EXCEPT !.position = Vec(0, 200000, 0), !.velocity = Vec(0, 0, 0),
              !.pitch = 0, !.roll = 0, !.yaw = 0, !.throttle = 300,
              !.speed = 0, !.onGround = TRUE]

\* rate * dt, rate per second
Rate(rate, dt) == TDiv(rate * dt, 60)

\* main.js 531-539
Controls(s, k, dt) ==
    LET p1 == IF "KeyW" \in k THEN s.pitch - Rate(PITCH_RATE, dt) ELSE s.pitch
        p2 == IF "KeyS" \in k THEN p1 + Rate(PITCH_RATE, dt) ELSE p1
        r1 == IF "KeyA" \in k THEN s.roll - Rate(ROLL_RATE, dt) ELSE s.roll
        r2 == IF "KeyD" \in k THEN r1 + Rate(ROLL_RATE, dt) ELSE r1
        y1 == IF "KeyQ" \in k THEN s.yaw + Rate(YAW_RATE, dt) ELSE s.yaw
        y2 == IF "KeyE" \in k THEN y1 - Rate(YAW_RATE, dt) ELSE y1
        t1 == IF "ArrowUp" \in k
              THEN Min(1000, s.throttle + Rate(THROTTLE_RATE, dt))
              ELSE s.throttle
        t2 == IF "ArrowDown" \in k
              THEN Max(0, t1 - Rate(THROTTLE_RATE, dt))
              ELSE t1
    IN  [s EXCEPT !.pitch = p2, !.roll = r2, !.yaw = y2, !.throttle = t2]

\* main.js 541: the reset writes the defaults and update() goes on.
ResetIntent(s, k) == IF "Space" \in k THEN resetAirplane(s) ELSE s

\* Mutant: the clamp of main.js 544-545 left out.
ClampAngles_Off(s) == s

\* main.js 544-545
ClampAngles(s) ==
    [s EXCEPT !.pitch = Max(-MAX_PITCH, Min(MAX_PITCH, s.pitch)),
              !.roll = Max(-MAX_ROLL, Min(MAX_ROLL, s.roll))]

\* main.js 548
YawCoupling(s, dt) ==
    [s EXCEPT !.yaw = s.yaw + Scale(s.roll, YAW_COUPLING * dt, 6000)]

\* Mutant: auto-level calibrated per second, ROLL_DAMPING^dt: a sixtieth of the
\* decay of a 60 Hz frame, rounded to ten-thousandths.
AutoLevel_PerSecond(s, k, dt) ==
    LET r == IF "KeyA" \notin k /\ "KeyD" \notin k
             THEN Scale(s.roll, Pow(9995, dt), 10000) ELSE s.roll
        p == IF "KeyW" \notin k /\ "KeyS" \notin k
             THEN Scale(s.pitch, Pow(9995, dt), 10000) ELSE s.pitch
    IN  [s EXCEPT !.roll = r, !.pitch = p]

\* main.js 551-558
AutoLevel(s, k, dt) ==
    LET r == IF "KeyA" \notin k /\ "KeyD" \notin k
             THEN Scale(s.roll, Pow(ROLL_DAMPING, dt), 10000) ELSE s.roll
        p == IF "KeyW" \notin k /\ "KeyS" \notin k
             THEN Scale(s.pitch, Pow(PITCH_DAMPING, dt), 10000) ELSE s.pitch
    IN  [s EXCEPT !.roll = r, !.pitch = p]

\* main.js 563-569: (1,0,0) turned by qYaw * qPitch * qRoll.
Forward(s) ==
    Vec(Mul4(Cos(s.pitch), Cos(s.yaw)), Sin(s.pitch),
        -Mul4(Cos(s.pitch), Sin(s.yaw)))

\* main.js 563-570: (0,1,0) turned by qYaw * qPitch * qRoll.
UpWorld(s) ==
    LET crsp == Mul4(Cos(s.roll), Sin(s.pitch))
    IN  Vec(Mul4(Sin(s.roll), Sin(s.yaw)) - Mul4(crsp, Cos(s.yaw)),
            Mul4(Cos(s.roll), Cos(s.pitch)),
            Mul4(crsp, Sin(s.yaw)) + Mul4(Sin(s.roll), Cos(s.yaw)))

\* main.js 573
MeasureSpeed(s) == [s EXCEPT !.speed = Length(s.velocity)]

\* main.js 576
StallCheck(s) == s.speed < STALL_SPEED /\ ~s.onGround

\* speed * speed, in thousands of (mm/s)^2
SpeedSq(speed) == Scale(speed, speed, 1000)

\* Mutant: lift that ignores the stall.
LiftAcc_Unstalled(s, isStalled) == (SpeedSq(s.speed) * LIFT_FACTOR) \div 10000

\* main.js 585
LiftAcc(s, isStalled) ==
    IF isStalled THEN 0 ELSE (SpeedSq(s.speed) * LIFT_FACTOR) \div 10000

\* main.js 589-592
Drag(s) ==
    IF s.speed > DRAG_MIN_SPEED
    THEN LET dragAcc == (SpeedSq(s.speed) * DRAG_FACTOR) \div 10000
         IN  Vec(MulDiv(s.velocity.x, -dragAcc, s.speed),
                 MulDiv(s.velocity.y, -dragAcc, s.speed),
                 MulDiv(s.velocity.z, -dragAcc, s.speed))
    ELSE Vec(0, 0, 0)

\* main.js 579-595
Acceleration(s, liftAcc) ==
    LET thrust == (s.throttle * THRUST_ACCEL) \div 1000
        a1 == AddScaled(Vec(0, 0, 0), Forward(s), thrust, 10000)
        a2 == AddScaled(a1, UpWorld(s), liftAcc, 10000)
        a3 == VAdd(a2, Drag(s))
    IN  [a3 EXCEPT !.y = a3.y - GRAVITY]

\* main.js 598
IntegrateVelocity(s, acc, dt) ==
    [s EXCEPT !.velocity = Vec(s.velocity.x + Rate(acc.x, dt),
                               s.velocity.y + Rate(acc.y, dt),
                               s.velocity.z + Rate(acc.z, dt))]

\* Mutant: the speed cap of main.js 601-603 left out.
SpeedCap_Off(s) == s

\* main.js 601-603
SpeedCap(s) ==
    IF LongerThan(s.velocity, MAX_SPEED)
    THEN [s EXCEPT !.velocity = SetLength(s.velocity, MAX_SPEED)]
    ELSE s

\* main.js 606-618
GroundConstraint(s, dt) ==
    IF s.position.y <= groundY
    THEN [s EXCEPT
            !.position = [s.position EXCEPT !.y = groundY],
            !.velocity =
                Vec(Scale(s.velocity.x, Pow(GROUND_FRICTION, dt), 10000),
                    IF s.velocity.y < 0 THEN 0 ELSE s.velocity.y,
                    Scale(s.velocity.z, Pow(GROUND_FRICTION, dt), 10000)),
            !.onGround = TRUE,
            !.pitch = Scale(s.pitch, Pow(GROUND_ANGLE_DAMPING, dt), 10000),
            !.roll = Scale(s.roll, Pow(GROUND_ANGLE_DAMPING, dt), 10000)]
    ELSE [s EXCEPT !.onGround = FALSE]

\* main.js 621
IntegratePosition(s, dt) ==
    [s EXCEPT !.position = Vec(s.position.x + Rate(100 * s.velocity.x, dt),
                               s.position.y + Rate(100 * s.velocity.y, dt),
                               s.position.z + Rate(100 * s.velocity.z, dt))]

\* main.js 624
GForce(liftAcc) == Abs((liftAcc * 1000) \div GRAVITY) + 1000

\* main.js 637-640: the offset turned by yaw only, added to the position.
DesiredCamPos(s) ==
    VAdd(s.position,
         Vec(Scale(cameraOffset.x, Abs(Cos(s.yaw)), 10000) * Sgn(Cos(s.yaw)),
             cameraOffset.y,
             -Scale(cameraOffset.x, Abs(Sin(s.yaw)), 10000) * Sgn(Sin(s.yaw))))

\* main.js 643
SmoothCamera(cur, s, dt) ==
    Lerp(cur, DesiredCamPos(s), 10000 - PowDt(CAMERA_LERP, dt))

\* main.js 646-649
SmoothTarget(tgt, s, dt) ==
    Lerp(tgt, VAdd(s.position, Vec(0, 100000, 0)), 10000 - PowDt(CAMERA_LERP, dt))

\* main.js 660: a division by dt, which is Infinity or NaN when dt is 0.
Vsi(y, prev, dt) ==
    IF dt # 0 THEN [kind |-> "number", value |-> TDiv((y - prev) * 60, dt)]
    ELSE IF y > prev THEN [kind |-> "Infinity", value |-> 0]
    ELSE IF y < prev THEN [kind |-> "-Infinity", value |-> 0]
    ELSE [kind |-> "NaN", value |-> 0]

\* main.js 657-672: altitude, speed (km/h), vertical speed, stall warning.  The
\* other readouts (heading, throttle, pitch, roll, g-force) are roundings of
\* fields of state; like the mesh pose and the propeller they feed nothing back.
Hud(s, prev, dt, isStalled) ==
    [alt |-> Max(0, s.position.y - groundY),
     spd |-> (s.speed * 36 + 5000) \div 10000,
     vsi |-> Vsi(s.position.y, prev, dt),
     stalled |-> isStalled]

(***************************************************************************)
(* Actions.                                                                *)
(***************************************************************************)
\* main.js 385-396, 417, 428-430, 524, 689-691
Init ==
    /\ state = InitialState
    /\ keys = {}
    /\ cameraCurrent = VAdd(InitialState.position, cameraOffset)
    /\ cameraTarget = Vec(0, 0, 0)
    /\ prevAltitude = 0
    /\ hud = [alt |-> 0, spd |-> 0, vsi |-> [kind |-> "number", value |-> 0],
              stalled |-> FALSE]
    /\ frame = [dt |-> 0, keys |-> {}, isStalled |-> FALSE, liftAcc |-> 0,
                capped |-> FALSE, prevOnGround |-> TRUE]
    /\ ticks = 0
    /\ liftoffs = 0

\* main.js 418-421
KeyDown(code) ==
    /\ keys' = keys \cup {code}
    /\ UNCHANGED <<state, cameraCurrent, cameraTarget, prevAltitude, hud,
                   frame, ticks, liftoffs>>

\* main.js 422-424
KeyUp(code) ==
    /\ keys' = keys \ {code}
    /\ UNCHANGED <<state, cameraCurrent, cameraTarget, prevAltitude, hud,
                   frame, ticks, liftoffs>>

\* main.js 526-678, called once per frame by animate (682-686); delta is what
\* clock.getDelta() returns.
Update(delta) ==
    LET dt == Min(delta, DT_CAP)
        s1 == Controls(state, keys, dt)
        s2 == ResetIntent(s1, keys)
        s3 == ClampAngles(s2)
        s4 == YawCoupling(s3, dt)
        s5 == AutoLevel(s4, keys, dt)
        s6 == MeasureSpeed(s5)
        isStalled == StallCheck(s6)
        liftAcc == LiftAcc(s6, isStalled)
        s7 == IntegrateVelocity(s6, Acceleration(s6, liftAcc), dt)
        s8 == SpeedCap(s7)
        s9 == GroundConstraint(s8, dt)
        s10 == IntegratePosition(s9, dt)
        s11 == [s10 EXCEPT !.gForce = GForce(liftAcc)]
    IN  /\ state' = s11
        /\ cameraCurrent' = SmoothCamera(cameraCurrent, s11, dt)
        /\ cameraTarget' = SmoothTarget(cameraTarget, s11, dt)
        /\ hud' = Hud(s11, prevAltitude, dt, isStalled)
        /\ prevAltitude' = s11.position.y
        /\ frame' = [dt |-> dt, keys |-> keys,
                     isStalled |-> isStalled, liftAcc |-> liftAcc,
                     capped |-> LongerThan(s7.velocity, MAX_SPEED),
                     prevOnGround |-> state.onGround]
        /\ ticks' = ticks + 1
        /\ liftoffs' = IF state.onGround /\ ~s11.onGround
                       THEN liftoffs + 1 ELSE liftoffs
        /\ UNCHANGED keys

(***************************************************************************)
(* Spec: free runs from the constructed state.  Any key of KeyCodes goes   *)
(* down or up between frames, as long as the keys held form one of         *)
(* KeyCombos, and every frame gets any delta of ClockDeltas.               *)
(***************************************************************************)
\* A run ends with its last frame: keys that move after it are never read.
PressKey(frames) == \E code \in KeyCodes :
    /\ ticks < frames
    /\ code \notin keys
    /\ keys \cup {code} \in KeyCombos
    /\ KeyDown(code)

ReleaseKey(frames) == \E code \in keys :
    /\ ticks < frames
    /\ keys \ {code} \in KeyCombos
    /\ KeyUp(code)

AnimateFrame(frames) == \E delta \in ClockDeltas :
    /\ ticks < frames
    /\ Update(delta)

Next == PressKey(MaxTicks) \/ ReleaseKey(MaxTicks) \/ AnimateFrame(MaxTicks)

Spec == Init /\ [][Next]_vars

(***************************************************************************)
(* SpecLiftoff: the liftoff run.  From the constructed state the throttle  *)
(* key is pressed before the first frame, or never, and the frames follow  *)
(* at 60 Hz.                                                               *)
(***************************************************************************)
HoldThrottleUp ==
    /\ ticks = 0
    /\ "ArrowUp" \notin keys
    /\ KeyDown("ArrowUp")

Frame60Hz ==
    /\ ticks < MaxLiftoffTicks
    /\ Update(1)

NextLiftoff == HoldThrottleUp \/ Frame60Hz

SpecLiftoff == Init /\ [][NextLiftoff]_vars

(***************************************************************************)
(* SpecFlight: free frames from a snapshot of a flight in progress: on the *)
(* runway, crossing the ground plane in a dive at the speed ceiling,       *)
(* cruising at the ceiling, slow and stalled, and climbing in a turn; with *)
(* the wings level or with pitch and roll on their bounds.                 *)
(***************************************************************************)
FlightMotions ==
    {[position |-> Vec(9000000, groundY, 0), velocity |-> Vec(30000, 0, 0),
      yaw |-> 0, throttle |-> 300, onGround |-> TRUE],
     [position |-> Vec(9000000, 109000, 0), velocity |-> Vec(88000, -66000, 0),
      yaw |-> 0, throttle |-> 300, onGround |-> FALSE],
     [position |-> Vec(40000000, 30000000, 0), velocity |-> Vec(110000, 0, 0),
      yaw |-> 0, throttle |-> 1000, onGround |-> FALSE],
     [position |-> Vec(2000000, 5000000, 0), velocity |-> Vec(12000, -9000, 0),
      yaw |-> 0, throttle |-> 0, onGround |-> FALSE],
     [position |-> Vec(-3000000, 20000000, 7000000),
      velocity |-> Vec(-60000, 45000, 80000), yaw |-> 2200000,
      throttle |-> 1000, onGround |-> FALSE]}

FlightAttitudes ==
    {[pitch |-> 0, roll |-> 0],
     [pitch |-> MAX_PITCH, roll |-> MAX_ROLL],
     [pitch |-> -MAX_PITCH, roll |-> -MAX_ROLL],
     [pitch |-> 400000, roll |-> -900000]}

FlightSnapshots ==
    {[position |-> m.position, velocity |-> m.velocity, pitch |-> a.pitch,
      roll |-> a.roll, yaw |-> m.yaw, throttle |-> m.throttle,
      speed |-> Length(m.velocity), gForce |-> 1000, onGround |-> m.onGround] :
        m \in FlightMotions, a \in FlightAttitudes}

\* A snapshot the program can be in: on the ground the angles have been damped.
InFlight(s) == s.onGround => (s.pitch = 0 /\ s.roll = 0)

InitFlight ==
    /\ state \in {s \in FlightSnapshots : InFlight(s)}
    /\ keys = {}
    /\ cameraCurrent = DesiredCamPos(state)
    /\ cameraTarget = VAdd(state.position, Vec(0, 100000, 0))
    /\ prevAltitude = state.position.y
    /\ hud = Hud(state, state.position.y, 1, FALSE)
    /\ frame = [dt |-> 1, keys |-> {}, isStalled |-> FALSE, liftAcc |-> 0,
                capped |-> FALSE, prevOnGround |-> state.onGround]
    /\ ticks = 0
    /\ liftoffs = 0

NextFlight ==
    \/ PressKey(MaxFlightTicks)
    \/ ReleaseKey(MaxFlightTicks)
    \/ AnimateFrame(MaxFlightTicks)

SpecFlight == InitFlight /\ [][NextFlight]_vars

(***************************************************************************)
(* SpecDecay: the auto-level run.  Airborne with a bank of 0.5 rad and no  *)
(* key held, the frames follow at 60 Hz.                                   *)
(***************************************************************************)
InitDecay ==
    /\ state \in {[InitialState EXCEPT !.position = Vec(0, y, 0),
                                        !.velocity = Vec(v, 0, 0),
                                        !.roll = 500000, !.speed = v,
                                        !.onGround = FALSE] :
                     y \in {20000000, 50000000}, v \in {60000, 90000}}
    /\ keys = {}
    /\ cameraCurrent = DesiredCamPos(state)
    /\ cameraTarget = VAdd(state.position, Vec(0, 100000, 0))
    /\ prevAltitude = state.position.y
    /\ hud = Hud(state, state.position.y, 1, FALSE)
    /\ frame = [dt |-> 1, keys |-> {}, isStalled |-> FALSE, liftAcc |-> 0,
                capped |-> FALSE, prevOnGround |-> FALSE]
    /\ ticks = 0
    /\ liftoffs = 0

NextDecay ==
    /\ ticks < MaxDecayTicks
    /\ Update(1)

SpecDecay == InitDecay /\ [][NextDecay]_vars

(***************************************************************************)
(* Properties.                                                             *)
(***************************************************************************)
Defaults(s) ==
    /\ s.position = Vec(0, 200000, 0)
    /\ s.velocity = Vec(0, 0, 0)
    /\ s.pitch = 0 /\ s.roll = 0 /\ s.yaw = 0
    /\ s.throttle = 300
    /\ s.speed = 0
    /\ s.onGround

\* C1: a frame in which Space is held, with dt in (0, 0.05], ends in the
\* default state: position (0,2,0), velocity 0, angles 0, throttle 0.3, speed 0
\* and onGround true, nothing of the frame being applied after the reset.
C1_ResetShortCircuits ==
    (ticks > 0 /\ "Space" \in frame.keys /\ frame.dt > 0) => Defaults(state)

\* C2: after every frame the aircraft is at or above the ground clearance,
\* position.y >= 1.1.
C2_GroundFloor == ticks > 0 => state.position.y >= groundY

\* C3: initially, after a reset and at the end of every frame, onGround is true
\* exactly when position.y <= 1.1.
C3_OnGroundIffAtFloor == state.onGround <=> (state.position.y <= groundY)

\* C4: at the end of every frame (dt in [0, 0.05], any keys held) |pitch| is at
\* most MAX_PITCH and |roll| at most MAX_ROLL.
C4_AngleClamp ==
    ticks > 0 => /\ frame.dt \in 0..DT_CAP
                 /\ Abs(state.pitch) <= MAX_PITCH
                 /\ Abs(state.roll) <= MAX_ROLL

\* C4 witness: a frame with the pitch key held and dt > 0 that started on the
\* bound and ends on it, that is, the clamp cut the angle back.
C4_Witness ==
    /\ ticks > 0 /\ frame.dt > 0 /\ frame.keys = {"KeyS"}
    /\ state.pitch = MAX_PITCH
    /\ Abs(state.roll) < MAX_ROLL /\ state.roll # 0

\* C5: at the end of every frame the velocity is no longer than MAX_SPEED.
C5_SpeedCeiling == ticks > 0 => ~LongerThan(state.velocity, MAX_SPEED)

\* C5 witness: a frame in which the speed cap rescaled the velocity and the
\* ground step then acted on it.
C5_Witness ==
    /\ ticks > 0 /\ frame.capped /\ frame.dt > 0
    /\ state.onGround /\ state.velocity.y = 0

\* C6 as amended: in a frame without reset the stall flag is true exactly when
\* the speed measured in the frame is below 20 m/s and onGround as the previous
\* frame left it is false; in every stalled frame the lift is 0 and gForce 1.0.
C6_StallPredicate ==
    (ticks > 0 /\ "Space" \notin frame.keys) =>
        /\ hud.stalled <=> (state.speed < STALL_SPEED /\ ~frame.prevOnGround)
        /\ hud.stalled => (frame.liftAcc = 0 /\ state.gForce = 1000)

\* C6 witness: a stalled frame of an aircraft that moves.
C6_Witness ==
    /\ ticks > 0 /\ "Space" \notin frame.keys /\ hud.stalled
    /\ state.speed > 5000 /\ frame.liftAcc = 0

\* C6 as stated: ... and the lift is 0 and gForce 1.0 in exactly the stalled
\* frames.
C6_LiftZeroExactlyWhenStalled ==
    (ticks > 0 /\ "Space" \notin frame.keys) =>
        /\ hud.stalled <=> (state.speed < STALL_SPEED /\ ~frame.prevOnGround)
        /\ hud.stalled <=> (frame.liftAcc = 0 /\ state.gForce = 1000)

\* C7: in the liftoff run with the throttle key held, onGround goes from true
\* to false exactly once, and an aircraft in the air faster than the speed at
\* which lift equals gravity stays in the air.
C7_SingleLiftoff ==
    "ArrowUp" \in keys =>
        /\ liftoffs <= 1
        /\ ticks = MaxLiftoffTicks => liftoffs = 1
        /\ (ticks > 0 /\ state.speed > LEVEL_LIFT_SPEED /\ ~frame.prevOnGround)
               => ~state.onGround

\* C8 as amended: with no key held and the aircraft in the air, a roll of
\* 0.5 rad is 0.485 rad after one 60 Hz frame and 0.5 * 0.97^60 = 0.0804 rad
\* after sixty.
C8_DecayPerFrame ==
    /\ ticks = 1 => state.roll = 485000
    /\ ticks = 60 => Abs(state.roll - 80400) <= 100

\* C8 witness: the end of the second, never having touched the ground.
C8_Witness ==
    ticks = 60 /\ keys = {} /\ ~state.onGround /\ liftoffs = 0 /\ state.roll > 0

\* C8 as stated: after sixty 60 Hz frames the roll of 0.5 rad is about
\* 0.5 * 0.97 = 0.485 rad (to within one percent).
C8_DecayPerSecond == ticks = 60 => Abs(state.roll - 485000) <= 4850

\* C9: the dt a frame uses lies in [0, 0.05]; a frame whose dt is zero leaves
\* position, velocity, pitch, roll, yaw and throttle as they were and reports a
\* finite vertical speed.
C9_ZeroDtFrame ==
    [][ticks' = ticks + 1 =>
          /\ frame'.dt \in 0..DT_CAP
          /\ frame'.dt = 0 =>
                /\ state'.position = state.position
                /\ state'.velocity = state.velocity
                /\ state'.pitch = state.pitch
                /\ state'.roll = state.roll
                /\ state'.yaw = state.yaw
                /\ state'.throttle = state.throttle
                /\ hud'.vsi.kind = "number"]_vars

\* C10: before the first frame cameraCurrent is the start position plus the
\* chase offset and cameraTarget is the start position plus (0,1,0).
C10_CameraSeeded ==
    ticks = 0 =>
        /\ cameraCurrent = VAdd(state.position, cameraOffset)
        /\ cameraTarget = VAdd(state.position, Vec(0, 100000, 0))

\* C11: at the end of every frame the cached state.speed is the length of
\* state.velocity as that frame left it, and it is never negative.
C11_SpeedIsVelocityLength ==
    ticks > 0 => /\ state.speed = Length(state.velocity)
                 /\ state.speed >= 0

\* C12: an airborne frame with dt > 0 that starts with pitch strictly inside
\* the bounds and has only W held ends with pitch raised by PITCH_RATE * dt (up
\* to the clamp) and with a forward vector whose vertical component has grown;
\* with only S held pitch is lowered by the same amount.
C12_WRaisesNose ==
    [][(/\ ticks' = ticks + 1
        /\ frame'.dt > 0
        /\ ~state'.onGround
        /\ Abs(state.pitch) < MAX_PITCH)
       => /\ frame'.keys = {"KeyW"} =>
                /\ state'.pitch
                     = Min(MAX_PITCH, state.pitch + Rate(PITCH_RATE, frame'.dt))
                /\ Forward(state').y > Forward(state).y
          /\ frame'.keys = {"KeyS"} =>
                state'.pitch
                  = Max(-MAX_PITCH, state.pitch - Rate(PITCH_RATE, frame'.dt))]_vars

\* C13: in a frame with dt > 0 and no yaw, roll or reset key held, a bank to
\* the roll-right side (roll > 0, where D drives roll) moves yaw the way E
\* does (down) and a bank to the roll-left side (roll < 0) moves yaw the way Q
\* does (up).
C13_TurnTowardLoweredWing ==
    [][(/\ ticks' = ticks + 1
        /\ frame'.dt > 0
        /\ frame'.keys \cap {"KeyQ", "KeyE", "KeyA", "KeyD", "Space"} = {})
       => /\ state.roll > 0 => state'.yaw < state.yaw
          /\ state.roll < 0 => state'.yaw > state.yaw]_vars

====
